---- MODULE Spec2Model ----
(***************************************************************************)
(* Model of the ORCS task orchestration engine (src/orcs/core.py and       *)
(* src/orcs/orcs_types.py): the task planner convert_query_to_task, the    *)
(* wave scheduler execute_task, and the subtask executor execute_subtask.  *)
(*                                                                         *)
(* Spec     : one orchestrator, one query: planning, dependency            *)
(*            resolution and the wave loop; every coroutine step between   *)
(*            two awaits is one action.  The executor of each subtask is   *)
(*            kept to the statements that touch the shared subtask state   *)
(*            (lines 333, 460-464, 715-726).                               *)
(* SpecExec : one execute_subtask call in full (round loop, tool calls,    *)
(*            finalization, error path) followed by the orchestrator's     *)
(*            recording of the returned result.                            *)
(* SpecTwoCalls : Spec with a second execute_task call running on the     *)
(*            same Task concurrently with the first.                       *)
(* SpecPair : two execute_subtask calls given the same model responses    *)
(*            and tool outcomes, one with a status_callback and one        *)
(*            without.                                                     *)
(***************************************************************************)
EXTENDS Integers, Sequences, FiniteSets, TLC

\* ------------------------------------------------------------------ bounds
MaxSubtasks == 3
MaxEdges == 3
NumTools == 4
MaxToolCalls == 2
MaxOkCalls == NumTools

\* --------------------------------------------------------------- constants
MAX_ITERATIONS == 10

EXECUTION_AGENTS == {"Location Agent", "Search Agent", "Scheduling Agent",
                     "Navigation Agent", "Concierge Agent"}

\* agent names the planner's answer is drawn from: a registered one and one
\* that is not in the registry
PlannerAgentNames == {"Search Agent", "GhostAgent"}

TaskStatus == {"PENDING", "IN_PROGRESS", "COMPLETED", "FAILED"}

\* Python's None
NoneValue == [is_none |-> TRUE]

\* subtask ids are f"{task_id}_sub_{idx}"; the model keeps idx.  An id that
\* names no subtask of the task, and the empty depends_on string:
UnknownId == MaxSubtasks
EmptyId == MaxSubtasks + 1

VARIABLES
    \* ---- ORCS object
    tasks,               \* self.tasks: set of stored task ids
    completed_results,   \* self.completed_results: subtask id -> TaskResult
    \* ---- the Task built by convert_query_to_task
    subtasks,            \* task.subtasks: sequence of [subtask_id, agent]
    needsClarification,  \* task.needsClarification
    task_status,         \* task.status
    task_end_time,       \* task.end_time
    status,              \* subtask.status, by subtask id
    dependencies,        \* subtask.dependencies (set of TaskDependency), by id
    result,              \* subtask.result, by subtask id
    \* ---- convert_query_to_task coroutine
    cpc,
    planner_output,      \* planner_output.subtasks: the agent name of each spec
    \* ---- execute_task coroutine
    epc,
    pending_subtasks,    \* the wave: sequence of subtask ids
    completed_subtasks,  \* sequence of subtask ids
    task_result,         \* value returned by execute_task
    wave_no,             \* iterations of the while loop that launched a wave
    \* ---- execute_subtask coroutines of the current call, by subtask id
    xpc,
    launch_wave,         \* wave in which execute_subtask(s) started
    invocations,         \* number of execute_subtask(s) coroutines started
    context              \* by subtask id: the ids of the subtasks whose
                         \* formatted history is in the seed user turn

schedVars == <<tasks, completed_results, subtasks, needsClarification,
               task_status, task_end_time, status, dependencies, result,
               cpc, planner_output, epc, pending_subtasks, completed_subtasks, task_result,
               wave_no, xpc, launch_wave, invocations, context>>

\* ---- one execute_subtask call in full (SpecExec)
VARIABLES
    x_pc,             \* position of the execute_subtask coroutine
    x_status,         \* subtask.status
    x_result,         \* subtask.result
    x_return,         \* value returned by execute_subtask
    x_exit,           \* the statement that ended execute_subtask
    iteration,        \* local variable iteration
    collected_data,   \* local dict collected_data: tool name -> entry
    ok_calls,         \* ToolCallResults produced so far with error None,
                      \* counted up to MaxOkCalls
    calls_left,       \* tool calls of the current response not yet executed
    status_callback,  \* whether a status_callback was passed
    response_format,  \* subtask.agent.response_format as line 696 reads it:
                      \* "schema", "None", or "unread" before that line
    tool_results,     \* list tool_results of _handle_tool_calls in progress:
                      \* the result and error of each ToolCallResult
    tool_messages,    \* messages: the contents of its role "tool" messages
    history_errors,   \* subtask.history: the errors of its recorded tool calls
    parse_requests,   \* structured-output requests sent (line 693)
    x_events,         \* status_callback invocations made by the latest step
    called_tools      \* the tool names handed to _execute_tool_call (line 509)

execVars == <<x_pc, x_status, x_result, x_return, x_exit, iteration,
              collected_data, ok_calls, calls_left, status_callback,
              response_format, tool_results, tool_messages, history_errors,
              parse_requests, x_events, called_tools>>

\* ---- two execute_subtask calls on equal subtasks that are given the same
\* model responses and tool outcomes, one with a status_callback that never
\* raises and one without (SpecPair)
VARIABLES
    runs              \* by "a status_callback was passed": the call's
                      \* [pc, status, result, iteration, calls_left, data]

subVars == <<execVars, runs>>

\* ---- a second execute_task call on the same Task, running concurrently
\* with the first (SpecTwoCalls)
VARIABLES
    epc2,                 \* position of the second execute_task coroutine
    pending_subtasks2,    \* its wave
    completed_subtasks2,  \* its list completed_subtasks
    task_result2,         \* the value it returns
    xpc2,                 \* its execute_subtask coroutines, by subtask id
    writes                \* assignments made to completed_results[id]
                          \* (line 286), by subtask id

call2Vars == <<epc2, pending_subtasks2, completed_subtasks2, task_result2,
               xpc2, writes>>

vars == <<schedVars, subVars, call2Vars>>

\* ----------------------------------------------------------------- helpers
Range(f) == {f[i] : i \in DOMAIN f}

SubtaskIds == {subtasks[i].subtask_id : i \in DOMAIN subtasks}

SeqsUpTo(S, n) == UNION {[1..k -> S] : k \in 0..n}

RECURSIVE SubsetsUpTo(_, _)
SubsetsUpTo(S, n) ==
    IF n = 0 THEN {{}}
    ELSE LET P == SubsetsUpTo(S, n - 1)
         IN P \cup {X \cup {e} : X \in P, e \in S}

Put(f, k, v) == [i \in DOMAIN f \cup {k} |-> IF i = k THEN v ELSE f[i]]

\* TaskResult built by _finalize_response, summarised
CompletedResult ==
    [status |-> "COMPLETED",
     data |-> [final_response |-> "structured", tool_call_history |-> "collected_data"],
     message |-> "Task completed successfully"]

\* TaskResult built by the except clause of execute_subtask, summarised
ErrorResult ==
    [status |-> "FAILED",
     data |-> [tool_call_history |-> "collected_data", error_details |-> "str(e)"],
     message |-> "Error in subtask"]

\* ------------------------------------------------------------ initial state
InitSub ==
    /\ x_pc = "idle"
    /\ x_status = "PENDING"
    /\ x_result = NoneValue
    /\ x_return = NoneValue
    /\ x_exit = "none"
    /\ iteration = 0
    /\ collected_data = <<>>
    /\ ok_calls = 0
    /\ calls_left = 0
    /\ status_callback = FALSE
    /\ response_format = "unread"
    /\ tool_results = <<>>
    /\ tool_messages = {}
    /\ history_errors = {}
    /\ parse_requests = 0
    /\ x_events = <<>>
    /\ called_tools = {}
    /\ runs = [cb \in BOOLEAN |->
                 [pc |-> "idle", status |-> "PENDING", result |-> NoneValue,
                  iteration |-> 0, calls_left |-> 0, data |-> <<>>]]

InitCall2 ==
    /\ epc2 = "idle"
    /\ pending_subtasks2 = <<>>
    /\ completed_subtasks2 = <<>>
    /\ task_result2 = NoneValue
    /\ xpc2 = <<>>
    /\ writes = <<>>

Init ==
    /\ InitCall2
    /\ context = <<>>
    /\ tasks = {}
    /\ completed_results = <<>>
    /\ subtasks = <<>>
    /\ needsClarification = FALSE
    /\ task_status = "PENDING"
    /\ task_end_time = NoneValue
    /\ status = <<>>
    /\ dependencies = <<>>
    /\ result = <<>>
    /\ cpc = "idle"
    /\ planner_output = <<>>
    /\ epc = "idle"
    /\ pending_subtasks = <<>>
    /\ completed_subtasks = <<>>
    /\ task_result = NoneValue
    /\ wave_no = 0
    /\ xpc = <<>>
    /\ launch_wave = <<>>
    /\ invocations = <<>>
    /\ InitSub

\* ------------------------------------------------- convert_query_to_task
taskRunVars == <<planner_output, epc, pending_subtasks, completed_subtasks, task_result,
                    wave_no, xpc, launch_wave, invocations>>

\* lines 26-51: up to the await of the planner's completion
ConvertCall ==
    /\ cpc = "idle"
    /\ cpc' = "planning"
    /\ UNCHANGED <<tasks, completed_results, subtasks, needsClarification,
                   task_status, task_end_time, status, dependencies, result>>
    /\ UNCHANGED taskRunVars
    /\ UNCHANGED context
    /\ UNCHANGED subVars
    /\ UNCHANGED call2Vars

\* the planner's completion raises: the exception leaves convert_query_to_task
PlannerFails ==
    /\ cpc = "planning"
    /\ cpc' = "raised"
    /\ UNCHANGED <<tasks, completed_results, subtasks, needsClarification,
                   task_status, task_end_time, status, dependencies, result>>
    /\ UNCHANGED taskRunVars
    /\ UNCHANGED context
    /\ UNCHANGED subVars
    /\ UNCHANGED call2Vars

\* variant: ids are numbered by position among the built subtasks, from one
ValidSubtasks_CountFromOne(specs) ==
    LET idxs == {i \in DOMAIN specs : specs[i] \in EXECUTION_AGENTS}
        F[i \in 0..Len(specs)] ==
            IF i = 0 THEN <<>>
            ELSE IF i \in idxs
                 THEN Append(F[i-1], [subtask_id |-> Len(F[i-1]) + 1,
                                      agent |-> specs[i]])
                 ELSE F[i-1]
    IN F[Len(specs)]

\* lines 57-77: the subtasks built from the planner's specs, invalid names skipped
ValidSubtasks(specs) ==
    LET idxs == {i \in DOMAIN specs : specs[i] \in EXECUTION_AGENTS}
        F[i \in 0..Len(specs)] ==
            IF i = 0 THEN <<>>
            ELSE IF i \in idxs
                 THEN Append(F[i-1], [subtask_id |-> i - 1, agent |-> specs[i]])
                 ELSE F[i-1]
    IN F[Len(specs)]

\* variant: the registry check is lost and no name is reported invalid
InvalidAgents_NoneReported(specs) ==
    SelectSeq(specs, LAMBDA a : FALSE)

\* lines 57-66: the names that are not in the registry
InvalidAgents(specs) ==
    SelectSeq(specs, LAMBDA a : a \notin EXECUTION_AGENTS)

\* lines 54-114: the planner's answer arrives
PlannerReturns(specs, clarify) ==
    /\ cpc = "planning"
    /\ LET subs == ValidSubtasks(specs)
           invalid_agents == InvalidAgents(specs)
           ids == {subs[i].subtask_id : i \in DOMAIN subs}
       IN IF invalid_agents # <<>>
          THEN \* lines 80-101
               /\ subtasks' = <<>>
               /\ needsClarification' = TRUE
               /\ status' = <<>>
               /\ dependencies' = <<>>
               /\ result' = <<>>
               /\ xpc' = <<>>
               /\ launch_wave' = <<>>
               /\ invocations' = <<>>
               /\ tasks' = tasks \cup {"task_id"}
               /\ cpc' = "returned"
          ELSE \* lines 104-118, 125-126
               /\ subtasks' = subs
               /\ needsClarification' = clarify
               /\ status' = [s \in ids |-> "PENDING"]
               /\ dependencies' = [s \in ids |-> {}]
               /\ result' = [s \in ids |-> NoneValue]
               /\ xpc' = [s \in ids |-> "none"]
               /\ launch_wave' = [s \in ids |-> 0]
               /\ invocations' = [s \in ids |-> 0]
               /\ IF subs # <<>>
                  THEN cpc' = "resolving" /\ tasks' = tasks
                  ELSE cpc' = "returned" /\ tasks' = tasks \cup {"task_id"}
    /\ planner_output' = specs
    /\ task_status' = "PENDING"
    /\ UNCHANGED <<completed_results, task_end_time, epc, pending_subtasks,
                   completed_subtasks, task_result, wave_no>>
    /\ UNCHANGED context
    /\ UNCHANGED subVars
    /\ UNCHANGED call2Vars

\* variant: the task is stored before the dependency agent is asked
ResolverFails_StoresTask ==
    /\ cpc = "resolving"
    /\ cpc' = "raised"
    /\ tasks' = tasks \cup {"task_id"}
    /\ UNCHANGED <<completed_results, subtasks, needsClarification,
                   task_status, task_end_time, status, dependencies, result>>
    /\ UNCHANGED taskRunVars
    /\ UNCHANGED context
    /\ UNCHANGED subVars
    /\ UNCHANGED call2Vars

\* the dependency agent's completion raises inside get_dependencies
ResolverFails ==
    /\ cpc = "resolving"
    /\ cpc' = "raised"
    /\ UNCHANGED <<tasks, completed_results, subtasks, needsClarification,
                   task_status, task_end_time, status, dependencies, result>>
    /\ UNCHANGED taskRunVars
    /\ UNCHANGED context
    /\ UNCHANGED subVars
    /\ UNCHANGED call2Vars

\* lines 160-170: TaskDependency objects for the entries that name an upstream
get_dependencies(dependency_output) ==
    {[task_id |-> d.depends_on, subtask_id |-> d.subtask_id] :
        d \in {e \in dependency_output : e.depends_on # EmptyId}}

\* lines 119-122: each dependency goes to the subtask it names as dependent
AttachDependencies(deps) ==
    [s \in SubtaskIds |-> dependencies[s] \cup {dep \in deps : dep.subtask_id = s}]

\* lines 158-170 and 119-126: the resolver's answer arrives
ResolverReturns(dependency_output) ==
    /\ cpc = "resolving"
    /\ dependencies' = AttachDependencies(get_dependencies(dependency_output))
    /\ tasks' = tasks \cup {"task_id"}
    /\ cpc' = "returned"
    /\ UNCHANGED <<completed_results, subtasks, needsClarification,
                   task_status, task_end_time, status, result>>
    /\ UNCHANGED taskRunVars
    /\ UNCHANGED context
    /\ UNCHANGED subVars
    /\ UNCHANGED call2Vars

DepInfos ==
    [subtask_id : 0..UnknownId, depends_on : (0..UnknownId) \cup {EmptyId}]

\* ----------------------------------------------------------- execute_task
planVars == <<tasks, subtasks, needsClarification, dependencies, cpc,
              planner_output>>

\* variant: any() in place of all()
can_execute_Any(s, completed_tasks) ==
    \/ dependencies[s] = {}
    \/ \E dep \in dependencies[s] :
          /\ dep.task_id \in DOMAIN completed_tasks
          /\ completed_tasks[dep.task_id].status = "COMPLETED"

\* SubTask.can_execute
can_execute(s, completed_tasks) ==
    \/ dependencies[s] = {}
    \/ \A dep \in dependencies[s] :
          /\ dep.task_id \in DOMAIN completed_tasks
          /\ completed_tasks[dep.task_id].status = "COMPLETED"

\* variant: the status filter is lost
ReadySubtasks_NoStatusFilter ==
    LET ids == [i \in DOMAIN subtasks |-> subtasks[i].subtask_id]
    IN SelectSeq(ids, LAMBDA s : can_execute(s, completed_results))

\* variant: one subtask per wave
ReadySubtasks_FirstOnly ==
    LET ids == [i \in DOMAIN subtasks |-> subtasks[i].subtask_id]
        ready == SelectSeq(ids, LAMBDA s : status[s] = "PENDING"
                                           /\ can_execute(s, completed_results))
    IN IF ready = <<>> THEN <<>> ELSE <<Head(ready)>>

\* lines 257-260: the ready set, in the order of task.subtasks
ReadySubtasks ==
    LET ids == [i \in DOMAIN subtasks |-> subtasks[i].subtask_id]
    IN SelectSeq(ids, LAMBDA s : status[s] = "PENDING"
                                 /\ can_execute(s, completed_results))

\* lines 248-252
ExecuteTaskCall ==
    /\ cpc = "returned"
    /\ epc = "idle"
    /\ task_status' = "IN_PROGRESS"
    /\ epc' = "loop"
    /\ UNCHANGED planVars
    /\ UNCHANGED <<completed_results, task_end_time, status, result,
                   pending_subtasks, completed_subtasks, task_result, wave_no,
                   xpc, launch_wave, invocations>>
    /\ UNCHANGED context
    /\ UNCHANGED subVars
    /\ UNCHANGED call2Vars

\* lines 255-281: a non-empty ready set is found, its coroutines are created
\* and handed to asyncio.gather
LaunchWave ==
    /\ epc = "loop"
    /\ Len(completed_subtasks) < Len(subtasks)
    /\ ReadySubtasks # <<>>
    /\ pending_subtasks' = ReadySubtasks
    /\ xpc' = [s \in DOMAIN xpc |->
                 IF s \in Range(ReadySubtasks) THEN "created" ELSE xpc[s]]
    /\ wave_no' = wave_no + 1
    /\ epc' = "gather"
    /\ UNCHANGED planVars
    /\ UNCHANGED <<completed_results, task_status, task_end_time, status,
                   result, completed_subtasks, task_result, launch_wave,
                   invocations>>
    /\ UNCHANGED context
    /\ UNCHANGED subVars
    /\ UNCHANGED call2Vars

\* variant: the result reports every subtask of the task as completed
FinishTask_ReportsAll ==
    /\ epc = "loop"
    /\ \/ ~ (Len(completed_subtasks) < Len(subtasks))
       \/ ReadySubtasks = <<>>
    /\ task_status' = "COMPLETED"
    /\ task_end_time' = [isoformat |-> "now"]
    /\ task_result' = [status |-> "COMPLETED",
                       data |-> [completed_subtasks |->
                                    [i \in DOMAIN subtasks |-> subtasks[i].subtask_id]],
                       message |-> Len(subtasks)]
    /\ epc' = "returned"
    /\ UNCHANGED planVars
    /\ UNCHANGED <<completed_results, status, result, pending_subtasks,
                   completed_subtasks, wave_no, xpc, launch_wave, invocations>>
    /\ UNCHANGED context
    /\ UNCHANGED subVars
    /\ UNCHANGED call2Vars

\* lines 255, 262-263 and 314-324: the loop ends (condition false, or break on
\* an empty ready set) and the task is reported complete
FinishTask ==
    /\ epc = "loop"
    /\ \/ ~ (Len(completed_subtasks) < Len(subtasks))
       \/ ReadySubtasks = <<>>
    /\ task_status' = "COMPLETED"
    /\ task_end_time' = [isoformat |-> "now"]
    /\ task_result' = [status |-> "COMPLETED",
                       data |-> [completed_subtasks |-> completed_subtasks],
                       message |-> Len(completed_subtasks)]
    /\ epc' = "returned"
    /\ UNCHANGED planVars
    /\ UNCHANGED <<completed_results, status, result, pending_subtasks,
                   completed_subtasks, wave_no, xpc, launch_wave, invocations>>
    /\ UNCHANGED context
    /\ UNCHANGED subVars
    /\ UNCHANGED call2Vars

\* variant: the wave is merged as soon as one of its executions has returned
MergeWave_Eager ==
    /\ epc = "gather"
    /\ \E s \in Range(pending_subtasks) : xpc[s] = "returned"
    /\ completed_subtasks' = completed_subtasks \o pending_subtasks
    /\ completed_results' =
          [i \in DOMAIN completed_results \cup Range(pending_subtasks) |->
              IF i \in Range(pending_subtasks) THEN result[i]
              ELSE completed_results[i]]
    /\ status' = [s \in DOMAIN status |->
                    IF s \in Range(pending_subtasks) THEN "COMPLETED"
                    ELSE status[s]]
    /\ epc' = "loop"
    /\ UNCHANGED planVars
    /\ UNCHANGED <<task_status, task_end_time, result, pending_subtasks,
                   task_result, wave_no, xpc, launch_wave, invocations>>
    /\ UNCHANGED context
    /\ UNCHANGED subVars
    /\ writes' = [i \in DOMAIN writes \cup Range(pending_subtasks) |->
                    (IF i \in DOMAIN writes THEN writes[i] ELSE 0)
                    + (IF i \in Range(pending_subtasks) THEN 1 ELSE 0)]
    /\ UNCHANGED <<epc2, pending_subtasks2, completed_subtasks2,
                   task_result2, xpc2>>

\* variant: the merge puts the members of the wave back to PENDING
MergeWave_Requeues ==
    /\ epc = "gather"
    /\ \A s \in Range(pending_subtasks) : xpc[s] = "returned"
    /\ completed_subtasks' = completed_subtasks \o pending_subtasks
    /\ completed_results' =
          [i \in DOMAIN completed_results \cup Range(pending_subtasks) |->
              IF i \in Range(pending_subtasks) THEN result[i]
              ELSE completed_results[i]]
    /\ status' = [s \in DOMAIN status |->
                    IF s \in Range(pending_subtasks) THEN "PENDING"
                    ELSE status[s]]
    /\ epc' = "loop"
    /\ UNCHANGED planVars
    /\ UNCHANGED <<task_status, task_end_time, result, pending_subtasks,
                   task_result, wave_no, xpc, launch_wave, invocations>>
    /\ UNCHANGED context
    /\ UNCHANGED subVars
    /\ writes' = [i \in DOMAIN writes \cup Range(pending_subtasks) |->
                    (IF i \in DOMAIN writes THEN writes[i] ELSE 0)
                    + (IF i \in Range(pending_subtasks) THEN 1 ELSE 0)]
    /\ UNCHANGED <<epc2, pending_subtasks2, completed_subtasks2,
                   task_result2, xpc2>>

\* lines 284-297: every execution of the wave has returned; gather hands the
\* results back and the wave is merged
MergeWave ==
    /\ epc = "gather"
    /\ \A s \in Range(pending_subtasks) : xpc[s] = "returned"
    /\ completed_subtasks' = completed_subtasks \o pending_subtasks
    /\ completed_results' =
          [i \in DOMAIN completed_results \cup Range(pending_subtasks) |->
              IF i \in Range(pending_subtasks) THEN result[i]
              ELSE completed_results[i]]
    /\ status' = [s \in DOMAIN status |->
                    IF s \in Range(pending_subtasks) THEN "COMPLETED"
                    ELSE status[s]]
    /\ epc' = "loop"
    /\ UNCHANGED planVars
    /\ UNCHANGED <<task_status, task_end_time, result, pending_subtasks,
                   task_result, wave_no, xpc, launch_wave, invocations>>
    /\ UNCHANGED context
    /\ UNCHANGED subVars
    /\ writes' = [i \in DOMAIN writes \cup Range(pending_subtasks) |->
                    (IF i \in DOMAIN writes THEN writes[i] ELSE 0)
                    + (IF i \in Range(pending_subtasks) THEN 1 ELSE 0)]
    /\ UNCHANGED <<epc2, pending_subtasks2, completed_subtasks2,
                   task_result2, xpc2>>

\* variant: the failure handler marks every subtask that is not COMPLETED
FailWave_MarksAll ==
    /\ epc = "gather"
    /\ \E s \in Range(pending_subtasks) : xpc[s] = "raised"
    /\ \A s \in Range(pending_subtasks) : xpc[s] # "created"
    /\ status' = [s \in DOMAIN status |->
                    IF status[s] # "COMPLETED" THEN "FAILED" ELSE status[s]]
    /\ epc' = "raised"
    /\ UNCHANGED planVars
    /\ UNCHANGED <<completed_results, task_status, task_end_time, result,
                   pending_subtasks, completed_subtasks, task_result, wave_no,
                   xpc, launch_wave, invocations>>
    /\ UNCHANGED context
    /\ UNCHANGED subVars
    /\ UNCHANGED call2Vars

\* variant: the failure handler also marks the task FAILED and stamps it
FailWave_FailsTask ==
    /\ epc = "gather"
    /\ \E s \in Range(pending_subtasks) : xpc[s] = "raised"
    /\ \A s \in Range(pending_subtasks) : xpc[s] # "created"
    /\ status' = [s \in DOMAIN status |->
                    IF s \in Range(pending_subtasks) /\ status[s] # "COMPLETED"
                    THEN "FAILED" ELSE status[s]]
    /\ task_status' = "FAILED"
    /\ task_end_time' = [isoformat |-> "now"]
    /\ epc' = "raised"
    /\ UNCHANGED planVars
    /\ UNCHANGED <<completed_results, result,
                   pending_subtasks, completed_subtasks, task_result, wave_no,
                   xpc, launch_wave, invocations>>
    /\ UNCHANGED context
    /\ UNCHANGED subVars
    /\ UNCHANGED call2Vars

\* lines 299-312: gather re-raises the first exception of the wave; the other
\* executions are not cancelled.  Every coroutine of the wave has run its first
\* step by then (the event loop runs them before gather's done-callback).
FailWave ==
    /\ epc = "gather"
    /\ \E s \in Range(pending_subtasks) : xpc[s] = "raised"
    /\ \A s \in Range(pending_subtasks) : xpc[s] # "created"
    /\ status' = [s \in DOMAIN status |->
                    IF s \in Range(pending_subtasks) /\ status[s] # "COMPLETED"
                    THEN "FAILED" ELSE status[s]]
    /\ epc' = "raised"
    /\ UNCHANGED planVars
    /\ UNCHANGED <<completed_results, task_status, task_end_time, result,
                   pending_subtasks, completed_subtasks, task_result, wave_no,
                   xpc, launch_wave, invocations>>
    /\ UNCHANGED context
    /\ UNCHANGED subVars
    /\ UNCHANGED call2Vars

\* line 348: the ids handed to get_context
subtask_dependencies(s) == {dep.subtask_id : dep \in dependencies[s]}

\* orcs_types 197-203: the subtasks whose section get_context writes; an
\* empty list of ids selects every subtask of the task
get_context(subtask_ids) ==
    IF subtask_ids # {}
    THEN {t \in SubtaskIds : t \in subtask_ids}
    ELSE SubtaskIds

\* -------------------------------------------- execute_subtask, summarised
\* lines 333-334: first step of the coroutine
SubtaskStart(s) ==
    /\ xpc[s] = "created"
    /\ xpc' = [xpc EXCEPT ![s] = "running"]
    /\ status' = [status EXCEPT ![s] = "IN_PROGRESS"]
    /\ launch_wave' = [launch_wave EXCEPT ![s] = wave_no]
    /\ invocations' = [invocations EXCEPT ![s] = @ + 1]
    /\ UNCHANGED planVars
    /\ UNCHANGED <<completed_results, task_status, task_end_time, result, epc,
                   pending_subtasks, completed_subtasks, task_result, wave_no>>
    /\ context' = Put(context, s, get_context(subtask_dependencies(s)))
    /\ UNCHANGED subVars
    /\ UNCHANGED call2Vars

\* lines 705-726: _finalize_response succeeds and the coroutine returns
SubtaskReturns(s) ==
    /\ xpc[s] = "running"
    /\ xpc' = [xpc EXCEPT ![s] = "returned"]
    /\ status' = [status EXCEPT ![s] = "COMPLETED"]
    /\ result' = [result EXCEPT ![s] = CompletedResult]
    /\ UNCHANGED planVars
    /\ UNCHANGED <<completed_results, task_status, task_end_time, epc,
                   pending_subtasks, completed_subtasks, task_result, wave_no,
                   launch_wave, invocations>>
    /\ UNCHANGED context
    /\ UNCHANGED subVars
    /\ UNCHANGED call2Vars

\* lines 433-464: the except clause; the coroutine raises ValueError
SubtaskRaises(s) ==
    /\ xpc[s] = "running"
    /\ xpc' = [xpc EXCEPT ![s] = "raised"]
    /\ status' = [status EXCEPT ![s] = "FAILED"]
    /\ result' = [result EXCEPT ![s] = ErrorResult]
    /\ UNCHANGED planVars
    /\ UNCHANGED <<completed_results, task_status, task_end_time, epc,
                   pending_subtasks, completed_subtasks, task_result, wave_no,
                   launch_wave, invocations>>
    /\ UNCHANGED context
    /\ UNCHANGED subVars
    /\ UNCHANGED call2Vars

\* ------------------------------------------------------------ specification
Next ==
    \/ ConvertCall
    \/ PlannerFails
    \/ /\ cpc = "planning"
       /\ \E specs \in SeqsUpTo(PlannerAgentNames, MaxSubtasks),
             clarify \in BOOLEAN :
             PlannerReturns(specs, clarify)
    \/ ResolverFails
    \/ /\ cpc = "resolving"
       /\ \E dependency_output \in SubsetsUpTo(DepInfos, MaxEdges) :
             ResolverReturns(dependency_output)
    \/ ExecuteTaskCall
    \/ LaunchWave
    \/ FinishTask
    \/ MergeWave
    \/ FailWave
    \/ \E s \in DOMAIN xpc : SubtaskStart(s)
    \/ \E s \in DOMAIN xpc : SubtaskReturns(s)
    \/ \E s \in DOMAIN xpc : SubtaskRaises(s)

Spec == Init /\ [][Next]_vars

\* ================================== a second, concurrent execute_task call
\* The same method called again on the same Task object while the first call
\* is running: it has its own locals and its own execute_subtask coroutines
\* and shares task.subtasks and self.completed_results with the first call.

\* lines 244-253: the second call starts
ExecuteTaskCall2 ==
    /\ cpc = "returned"
    /\ epc2 = "idle"
    /\ task_status' = "IN_PROGRESS"
    /\ epc2' = "loop"
    /\ xpc2' = [s \in SubtaskIds |-> "none"]
    /\ UNCHANGED planVars
    /\ UNCHANGED <<completed_results, task_end_time, status, result>>
    /\ UNCHANGED taskRunVars
    /\ UNCHANGED <<pending_subtasks2, completed_subtasks2, task_result2, writes>>
    /\ UNCHANGED context
    /\ UNCHANGED subVars

\* lines 255-281 in the second call
LaunchWave2 ==
    /\ epc2 = "loop"
    /\ Len(completed_subtasks2) < Len(subtasks)
    /\ ReadySubtasks # <<>>
    /\ pending_subtasks2' = ReadySubtasks
    /\ xpc2' = [s \in DOMAIN xpc2 |->
                  IF s \in Range(ReadySubtasks) THEN "created" ELSE xpc2[s]]
    /\ epc2' = "gather"
    /\ UNCHANGED planVars
    /\ UNCHANGED <<completed_results, task_status, task_end_time, status,
                   result>>
    /\ UNCHANGED taskRunVars
    /\ UNCHANGED <<completed_subtasks2, task_result2, writes>>
    /\ UNCHANGED context
    /\ UNCHANGED subVars

\* lines 255, 262-263 and 314-324 in the second call
FinishTask2 ==
    /\ epc2 = "loop"
    /\ \/ ~ (Len(completed_subtasks2) < Len(subtasks))
       \/ ReadySubtasks = <<>>
    /\ task_status' = "COMPLETED"
    /\ task_end_time' = [isoformat |-> "now"]
    /\ task_result2' = [status |-> "COMPLETED",
                        data |-> [completed_subtasks |-> completed_subtasks2],
                        message |-> Len(completed_subtasks2)]
    /\ epc2' = "returned"
    /\ UNCHANGED planVars
    /\ UNCHANGED <<completed_results, status, result>>
    /\ UNCHANGED taskRunVars
    /\ UNCHANGED <<pending_subtasks2, completed_subtasks2, xpc2, writes>>
    /\ UNCHANGED context
    /\ UNCHANGED subVars

\* lines 284-297 in the second call
MergeWave2 ==
    /\ epc2 = "gather"
    /\ \A s \in Range(pending_subtasks2) : xpc2[s] = "returned"
    /\ completed_subtasks2' = completed_subtasks2 \o pending_subtasks2
    /\ completed_results' =
          [i \in DOMAIN completed_results \cup Range(pending_subtasks2) |->
              IF i \in Range(pending_subtasks2) THEN result[i]
              ELSE completed_results[i]]
    /\ writes' = [i \in DOMAIN writes \cup Range(pending_subtasks2) |->
                    (IF i \in DOMAIN writes THEN writes[i] ELSE 0)
                    + (IF i \in Range(pending_subtasks2) THEN 1 ELSE 0)]
    /\ status' = [s \in DOMAIN status |->
                    IF s \in Range(pending_subtasks2) THEN "COMPLETED"
                    ELSE status[s]]
    /\ epc2' = "loop"
    /\ UNCHANGED planVars
    /\ UNCHANGED <<task_status, task_end_time, result>>
    /\ UNCHANGED taskRunVars
    /\ UNCHANGED <<pending_subtasks2, task_result2, xpc2>>
    /\ UNCHANGED context
    /\ UNCHANGED subVars

\* lines 299-312 in the second call
FailWave2 ==
    /\ epc2 = "gather"
    /\ \E s \in Range(pending_subtasks2) : xpc2[s] = "raised"
    /\ \A s \in Range(pending_subtasks2) : xpc2[s] # "created"
    /\ status' = [s \in DOMAIN status |->
                    IF s \in Range(pending_subtasks2) /\ status[s] # "COMPLETED"
                    THEN "FAILED" ELSE status[s]]
    /\ epc2' = "raised"
    /\ UNCHANGED planVars
    /\ UNCHANGED <<completed_results, task_status, task_end_time, result>>
    /\ UNCHANGED taskRunVars
    /\ UNCHANGED <<pending_subtasks2, completed_subtasks2, task_result2,
                   xpc2, writes>>
    /\ UNCHANGED context
    /\ UNCHANGED subVars

\* lines 333-334 in a coroutine of the second call
SubtaskStart2(s) ==
    /\ xpc2[s] = "created"
    /\ xpc2' = [xpc2 EXCEPT ![s] = "running"]
    /\ status' = [status EXCEPT ![s] = "IN_PROGRESS"]
    /\ UNCHANGED planVars
    /\ UNCHANGED <<completed_results, task_status, task_end_time, result>>
    /\ UNCHANGED taskRunVars
    /\ UNCHANGED <<epc2, pending_subtasks2, completed_subtasks2,
                   task_result2, writes>>
    /\ context' = Put(context, s, get_context(subtask_dependencies(s)))
    /\ UNCHANGED subVars

\* lines 705-726 in a coroutine of the second call
SubtaskReturns2(s) ==
    /\ xpc2[s] = "running"
    /\ xpc2' = [xpc2 EXCEPT ![s] = "returned"]
    /\ status' = [status EXCEPT ![s] = "COMPLETED"]
    /\ result' = [result EXCEPT ![s] = CompletedResult]
    /\ UNCHANGED planVars
    /\ UNCHANGED <<completed_results, task_status, task_end_time>>
    /\ UNCHANGED taskRunVars
    /\ UNCHANGED <<epc2, pending_subtasks2, completed_subtasks2,
                   task_result2, writes>>
    /\ UNCHANGED context
    /\ UNCHANGED subVars

\* lines 433-464 in a coroutine of the second call
SubtaskRaises2(s) ==
    /\ xpc2[s] = "running"
    /\ xpc2' = [xpc2 EXCEPT ![s] = "raised"]
    /\ status' = [status EXCEPT ![s] = "FAILED"]
    /\ result' = [result EXCEPT ![s] = ErrorResult]
    /\ UNCHANGED planVars
    /\ UNCHANGED <<completed_results, task_status, task_end_time>>
    /\ UNCHANGED taskRunVars
    /\ UNCHANGED <<epc2, pending_subtasks2, completed_subtasks2,
                   task_result2, writes>>
    /\ UNCHANGED context
    /\ UNCHANGED subVars

NextTwoCalls ==
    \/ Next
    \/ ExecuteTaskCall2
    \/ LaunchWave2
    \/ FinishTask2
    \/ MergeWave2
    \/ FailWave2
    \/ \E s \in DOMAIN xpc2 : SubtaskStart2(s)
    \/ \E s \in DOMAIN xpc2 : SubtaskReturns2(s)
    \/ \E s \in DOMAIN xpc2 : SubtaskRaises2(s)

SpecTwoCalls == Init /\ [][NextTwoCalls]_vars


\* ================================================= execute_subtask in full
\* tool_registry.functions, and a tool name the model may ask for that is
\* not registered
RegisteredTools == 1..NumTools
UnregisteredTool == NumTools + 1
ToolNames == RegisteredTools \cup {UnregisteredTool}

\* lines 589-651: the ToolCallResult of one call; raises is whether the tool
\* function raises
_execute_tool_call(tool_name, raises) ==
    IF tool_name \notin RegisteredTools
    THEN [tool_name |-> tool_name, result |-> "{}", error |-> "not found in registry"]
    ELSE IF raises
         THEN [tool_name |-> tool_name, result |-> "{}", error |-> "Error executing tool"]
         ELSE [tool_name |-> tool_name, result |-> "result", error |-> "None"]

\* variant: only successful results are stored
StoreToolResult_SkipErrors(data, tool_result) ==
    IF tool_result.error = "None"
    THEN Put(data, tool_result.tool_name,
             [result |-> tool_result.result, error |-> tool_result.error])
    ELSE data

\* variant: the first entry stored under a tool's name is kept
StoreToolResult_KeepsFirst(data, tool_result) ==
    IF tool_result.tool_name \in DOMAIN data
    THEN data
    ELSE Put(data, tool_result.tool_name,
             [result |-> tool_result.result, error |-> tool_result.error])

\* lines 513-517: the entry stored under the tool's name
StoreToolResult(data, tool_result) ==
    Put(data, tool_result.tool_name,
        [result |-> tool_result.result, error |-> tool_result.error])

\* variant: the structured response is returned without a data payload
FinalResult_NoData(data) ==
    [status |-> "COMPLETED",
     data |-> NoneValue,
     message |-> [text |-> "Task completed successfully", error |-> "None"]]

\* lines 705-713: the TaskResult of a successful finalization
FinalResult(data) ==
    [status |-> "COMPLETED",
     data |-> [final_response |-> "structured", tool_call_history |-> data],
     message |-> [text |-> "Task completed successfully", error |-> "None"]]

\* variant: the error result forgets the collected data
SubtaskErrorResult_NoHistory(data, error_details, iterations_completed) ==
    [status |-> "FAILED",
     data |-> [tool_call_history |-> <<>>,
               error_details |-> error_details,
               iterations_completed |-> iterations_completed],
     message |-> [text |-> "Error in subtask", error |-> error_details]]

\* lines 434-446: the TaskResult built by the except clause
SubtaskErrorResult(data, error_details, iterations_completed) ==
    [status |-> "FAILED",
     data |-> [tool_call_history |-> data,
               error_details |-> error_details,
               iterations_completed |-> iterations_completed],
     message |-> [text |-> "Error in subtask", error |-> error_details]]

\* variant: the except clause records the result but not the status
ExceptClause_StatusNotSet(data, error_details) ==
    /\ x_status' = x_status
    /\ x_result' = SubtaskErrorResult(data, error_details, iteration)
    /\ x_pc' = "raised"

\* lines 433-464: the except clause of execute_subtask; it ends by raising
ExceptClause(data, error_details) ==
    /\ x_status' = "FAILED"
    /\ x_result' = SubtaskErrorResult(data, error_details, iteration)
    /\ x_pc' = "raised"

\* variant: the ceiling test never fires
AtCeiling_Never(it) == FALSE

\* line 407
AtCeiling(it) == it = MAX_ITERATIONS

\* line 582: the content of the role "tool" message built from one
\* ToolCallResult, json.dumps(tr.result.to_dict())
ToolMessage(tool_result) == tool_result.result

\* lines 558-563 and orcs_types 149-155: the errors of the tool calls that
\* one "Tool execution results" interaction adds to the history
RecordedErrors(results) ==
    {results[i].error : i \in DOMAIN results} \ {"None"}

\* the status_callback invocations of a step: none without a callback
Emit(cb, events) == IF cb THEN events ELSE <<>>

\* lines 341-346
StartCallbacks == <<"analyzing">>

\* lines 363-368
ThinkingCallbacks == <<"thinking">>

\* lines 494-506 and 519-532: the two invocations around one tool call
ToolCallCallbacks(tool_result) ==
    <<"tool_call_start", "tool_result">>

\* lines 674-686
FinalizingCallbacks == <<"finalizing">>

\* lines 719-724
CompletedCallbacks == <<"COMPLETED">>

\* lines 424-429
CeilingCallbacks == <<"FAILED">>

\* variant: the except clause does not report the failure
ExceptCallbacks_Silent == <<>>

\* lines 448-453
ExceptCallbacks == <<"FAILED">>

\* lines 333-370: start of the coroutine up to the first model call; the
\* caller chooses whether to pass a status_callback
XStart ==
    /\ x_pc = "idle"
    /\ \E cb \in BOOLEAN :
          /\ status_callback' = cb
          /\ x_events' = Emit(cb, StartCallbacks \o ThinkingCallbacks)
    /\ x_status' = "IN_PROGRESS"
    /\ iteration' = 1
    /\ x_pc' = "model"
    /\ UNCHANGED <<x_result, x_return, x_exit, collected_data, ok_calls,
                   calls_left, response_format, tool_results, tool_messages,
                   history_errors, parse_requests>>
    /\ UNCHANGED schedVars
    /\ UNCHANGED <<runs, called_tools>>
    /\ UNCHANGED call2Vars

\* line 370 raises (language-model service error): except clause
XModelFails ==
    /\ x_pc = "model"
    /\ ExceptClause(collected_data, "model call failed")
    /\ x_exit' = "model_error"
    /\ x_events' = Emit(status_callback, ExceptCallbacks)
    /\ UNCHANGED <<x_return, iteration, collected_data, ok_calls, calls_left,
                   status_callback, response_format, tool_results,
                   tool_messages, history_errors, parse_requests>>
    /\ UNCHANGED schedVars
    /\ UNCHANGED <<runs, called_tools>>
    /\ UNCHANGED call2Vars

\* lines 377-397, 487-491 and 674-697: the model answers with n tool calls;
\* with none, the executor sends the structured-output request with the
\* response_format of the subtask's agent (fmt: a schema, or None)
XModelResponds(n, fmt) ==
    /\ x_pc = "model"
    /\ tool_results' = <<>>
    /\ IF n = 0
       THEN /\ x_pc' = "finalize"
            /\ calls_left' = 0
            /\ response_format' = fmt
            /\ parse_requests' = parse_requests + 1
            /\ x_events' = Emit(status_callback, FinalizingCallbacks)
       ELSE /\ x_pc' = "tools"
            /\ calls_left' = n
            /\ UNCHANGED <<response_format, parse_requests>>
            /\ x_events' = <<>>
    /\ UNCHANGED <<x_status, x_result, x_return, x_exit, iteration,
                   collected_data, ok_calls, status_callback,
                   tool_messages, history_errors>>
    /\ UNCHANGED schedVars
    /\ UNCHANGED <<runs, called_tools>>
    /\ UNCHANGED call2Vars

\* lines 377-397 and 674-697 for an agent without response_format: the model
\* answers without tool calls and the client library refuses the
\* response_format None before it sends anything; except clause
XParseRejected ==
    /\ x_pc = "model"
    /\ response_format' = "None"
    /\ tool_results' = <<>>
    /\ ExceptClause(collected_data, "unsupported response_format")
    /\ x_exit' = "no_schema"
    /\ x_events' = Emit(status_callback, FinalizingCallbacks \o ExceptCallbacks)
    /\ UNCHANGED <<x_return, iteration, collected_data, ok_calls, calls_left,
                   status_callback, tool_messages, history_errors,
                   parse_requests>>
    /\ UNCHANGED schedVars
    /\ UNCHANGED <<runs, called_tools>>
    /\ UNCHANGED call2Vars

\* lines 493-517: one tool call of the response; bad_json is whether its
\* arguments are not valid JSON (line 503 decodes them for the callback,
\* line 597 for the tool).  After the last call of the response (lines
\* 558-587, 392, 407-431, 360-370) the executor either raises at the ceiling
\* or goes to the next round; a loop that ends without the ceiling test
\* firing leaves the function without a return value.
XToolCall(tool_name, raises, bad_json) ==
    /\ x_pc = "tools"
    /\ calls_left > 0
    /\ IF status_callback /\ bad_json
       THEN /\ ExceptClause(collected_data, "invalid tool arguments")
            /\ x_exit' = "bad_arguments"
            /\ x_events' = Emit(status_callback, ExceptCallbacks)
            /\ UNCHANGED <<x_return, iteration, collected_data, ok_calls,
                           calls_left, tool_results, tool_messages,
                           history_errors, called_tools>>
       ELSE LET tool_result == _execute_tool_call(tool_name, raises \/ bad_json)
                data == StoreToolResult(collected_data, tool_result)
                results == Append(tool_results,
                                  [result |-> tool_result.result,
                                   error |-> tool_result.error])
                called == ToolCallCallbacks(tool_result)
            IN /\ called_tools' = called_tools \cup {tool_name}
               /\ collected_data' = data
               /\ ok_calls' = IF tool_result.error = "None" /\ ok_calls < MaxOkCalls
                              THEN ok_calls + 1
                              ELSE ok_calls
               /\ calls_left' = calls_left - 1
               /\ IF calls_left > 1
                  THEN /\ tool_results' = results
                       /\ x_events' = Emit(status_callback, called)
                       /\ UNCHANGED <<x_pc, x_status, x_result, x_return,
                                      x_exit, iteration, tool_messages,
                                      history_errors>>
                  ELSE /\ tool_results' = <<>>
                       /\ history_errors' = history_errors \cup
                              RecordedErrors(results)
                       /\ tool_messages' = tool_messages \cup
                              {ToolMessage(results[i]) : i \in DOMAIN results}
                       /\ IF AtCeiling(iteration)
                          THEN /\ ExceptClause(data, "Maximum iterations reached")
                               /\ x_exit' = "max_iterations"
                               /\ x_events' = Emit(status_callback,
                                     called \o CeilingCallbacks \o ExceptCallbacks)
                               /\ UNCHANGED <<x_return, iteration>>
                          ELSE IF iteration < MAX_ITERATIONS
                          THEN /\ iteration' = iteration + 1
                               /\ x_pc' = "model"
                               /\ x_events' = Emit(status_callback,
                                     called \o ThinkingCallbacks)
                               /\ UNCHANGED <<x_status, x_result, x_return, x_exit>>
                          ELSE /\ x_pc' = "returned"
                               /\ x_exit' = "loop_end"
                               /\ x_return' = NoneValue
                               /\ x_events' = Emit(status_callback, called)
                               /\ UNCHANGED <<x_status, x_result, iteration>>
    /\ UNCHANGED <<status_callback, response_format, parse_requests>>
    /\ UNCHANGED schedVars
    /\ UNCHANGED runs
    /\ UNCHANGED call2Vars

\* variant: the parsed response is recorded as a failure
XFinalizeParsed_AsFailure ==
    /\ x_pc = "finalize"
    /\ response_format = "schema"
    /\ x_status' = "FAILED"
    /\ x_result' = FinalResult(collected_data)
    /\ x_return' = FinalResult(collected_data)
    /\ x_exit' = "finalized"
    /\ x_pc' = "returned"
    /\ x_events' = Emit(status_callback, CompletedCallbacks)
    /\ UNCHANGED <<iteration, collected_data, ok_calls, calls_left,
                   status_callback, response_format, tool_results,
                   tool_messages, history_errors, parse_requests>>
    /\ UNCHANGED schedVars
    /\ UNCHANGED <<runs, called_tools>>
    /\ UNCHANGED call2Vars

\* lines 699-726: the structured response parses; the subtask is completed
XFinalizeParsed ==
    /\ x_pc = "finalize"
    /\ response_format = "schema"
    /\ x_status' = "COMPLETED"
    /\ x_result' = FinalResult(collected_data)
    /\ x_return' = FinalResult(collected_data)
    /\ x_exit' = "finalized"
    /\ x_pc' = "returned"
    /\ x_events' = Emit(status_callback, CompletedCallbacks)
    /\ UNCHANGED <<iteration, collected_data, ok_calls, calls_left,
                   status_callback, response_format, tool_results,
                   tool_messages, history_errors, parse_requests>>
    /\ UNCHANGED schedVars
    /\ UNCHANGED <<runs, called_tools>>
    /\ UNCHANGED call2Vars

\* lines 699-702 for an agent without response_format: the completion has no
\* parsed message and structured_response.model_dump() raises; except clause
XFinalizeNoSchema ==
    /\ x_pc = "finalize"
    /\ response_format = "None"
    /\ ExceptClause(collected_data, "no parsed response")
    /\ x_exit' = "no_schema"
    /\ x_events' = Emit(status_callback, ExceptCallbacks)
    /\ UNCHANGED <<x_return, iteration, collected_data, ok_calls, calls_left,
                   status_callback, response_format, tool_results,
                   tool_messages, history_errors, parse_requests>>
    /\ UNCHANGED schedVars
    /\ UNCHANGED <<runs, called_tools>>
    /\ UNCHANGED call2Vars

\* variant: a response that does not parse sends the executor back to the model
XFinalizeFails_Retries ==
    /\ x_pc = "finalize"
    /\ x_pc' = "model"
    /\ x_events' = <<>>
    /\ UNCHANGED <<x_status, x_result, x_exit>>
    /\ UNCHANGED <<x_return, iteration, collected_data, ok_calls, calls_left,
                   status_callback, response_format, tool_results,
                   tool_messages, history_errors, parse_requests>>
    /\ UNCHANGED schedVars
    /\ UNCHANGED <<runs, called_tools>>
    /\ UNCHANGED call2Vars

\* line 693 raises (the structured response does not parse): lines 404-405
\* re-raise into the except clause
XFinalizeFails ==
    /\ x_pc = "finalize"
    /\ ExceptClause(collected_data, "parse failed")
    /\ x_exit' = "parse_error"
    /\ x_events' = Emit(status_callback, ExceptCallbacks)
    /\ UNCHANGED <<x_return, iteration, collected_data, ok_calls, calls_left,
                   status_callback, response_format, tool_results,
                   tool_messages, history_errors, parse_requests>>
    /\ UNCHANGED schedVars
    /\ UNCHANGED <<runs, called_tools>>
    /\ UNCHANGED call2Vars

\* lines 284-297 for a wave made of this subtask: the result is recorded
XRecord ==
    /\ x_pc = "returned"
    /\ completed_results' = Put(completed_results, 0, x_return)
    /\ x_status' = "COMPLETED"
    /\ x_pc' = "recorded"
    /\ x_events' = Emit(status_callback, <<"COMPLETED">>)
    /\ UNCHANGED <<x_result, x_return, x_exit, iteration, collected_data,
                   ok_calls, calls_left, status_callback, response_format,
                   tool_results, tool_messages, history_errors,
                   parse_requests>>
    /\ UNCHANGED <<tasks, subtasks, needsClarification, task_status,
                   task_end_time, status, dependencies, result, cpc,
                   planner_output, epc, pending_subtasks, completed_subtasks,
                   task_result, wave_no, xpc, launch_wave, invocations,
                   context>>
    /\ UNCHANGED <<runs, called_tools>>
    /\ writes' = Put(writes, 0, IF 0 \in DOMAIN writes THEN writes[0] + 1 ELSE 1)
    /\ UNCHANGED <<epc2, pending_subtasks2, completed_subtasks2,
                   task_result2, xpc2>>

\* lines 299-312 for a wave made of this subtask: execute_task re-raises
XWaveFails ==
    /\ x_pc = "raised"
    /\ x_status' = IF x_status # "COMPLETED" THEN "FAILED" ELSE x_status
    /\ x_pc' = "propagated"
    /\ x_events' = Emit(status_callback,
                        IF x_status # "COMPLETED" THEN <<"FAILED">> ELSE <<>>)
    /\ UNCHANGED <<x_result, x_return, x_exit, iteration, collected_data,
                   ok_calls, calls_left, status_callback, response_format,
                   tool_results, tool_messages, history_errors,
                   parse_requests>>
    /\ UNCHANGED schedVars
    /\ UNCHANGED <<runs, called_tools>>
    /\ UNCHANGED call2Vars

NextExec ==
    \/ XStart
    \/ XModelFails
    \/ \E n \in 0..MaxToolCalls, fmt \in {"schema", "None"} :
          XModelResponds(n, fmt)
    \/ XParseRejected
    \/ \E tool_name \in ToolNames, raises \in BOOLEAN, bad_json \in BOOLEAN :
          /\ ~(raises /\ bad_json)
          /\ XToolCall(tool_name, raises, bad_json)
    \/ XFinalizeParsed
    \/ XFinalizeNoSchema
    \/ XFinalizeFails
    \/ XRecord
    \/ XWaveFails

SpecExec == Init /\ [][NextExec]_vars

\* ================================================================== claims
Upstream(s) == {dep.task_id : dep \in dependencies[s]}

\* C1: a subtask becomes IN_PROGRESS only in a state where completed_results
\* holds a COMPLETED entry under the upstream id of each of its dependencies
C1_DependencyOrdering ==
    [][\A s \in DOMAIN status :
          (s \in DOMAIN status' /\ status[s] # "IN_PROGRESS"
                                /\ status'[s] = "IN_PROGRESS")
          => \A u \in Upstream(s) :
                /\ u \in DOMAIN completed_results
                /\ completed_results[u].status = "COMPLETED"]_vars

\* a subtask that has two dependencies is running
C1_Witness ==
    \E s \in DOMAIN status :
        /\ status[s] = "IN_PROGRESS"
        /\ Cardinality(Upstream(s)) = 2

\* C2: execute_subtask starts at most once per subtask id in one execute_task
\* call; each wave is exactly the set of PENDING subtasks that can execute;
\* a subtask that left PENDING never returns to it
C2_NoDuplicateExecution ==
    [][/\ \A s \in DOMAIN invocations' : invocations'[s] <= 1
       /\ \A s \in DOMAIN status :
             (s \in DOMAIN status' /\ status[s] # "PENDING")
             => status'[s] # "PENDING"
       /\ (epc = "loop" /\ epc' = "gather")
          => Range(pending_subtasks') =
                {s \in SubtaskIds : status[s] = "PENDING"
                                    /\ can_execute(s, completed_results)}]_vars

\* a second wave is in flight after a first one was merged
C2_Witness ==
    /\ epc = "gather"
    /\ wave_no = 2
    /\ \E s \in Range(pending_subtasks) : xpc[s] = "running"
    /\ \E s \in DOMAIN status : status[s] = "COMPLETED" /\ invocations[s] = 1

\* C3 (as claimed): the task is COMPLETED and a COMPLETED TaskResult is
\* returned only when every subtask is COMPLETED
C3_CompletedOnlyWhenAllCompleted ==
    (epc = "returned" /\ task_status = "COMPLETED"
                      /\ task_result.status = "COMPLETED")
    => \A s \in DOMAIN status : status[s] = "COMPLETED"

\* C4 (as claimed): after a wave failure execute_task does not return, and a
\* wave member that the handler left FAILED stays FAILED
C4_WaveFailureAtomicity ==
    /\ []((\E s \in DOMAIN xpc : xpc[s] = "raised") => epc # "returned")
    /\ [](epc = "raised"
          => \A s \in Range(pending_subtasks) :
                status[s] \in {"COMPLETED", "FAILED"})
    /\ [][epc = "raised"
          => \A s \in Range(pending_subtasks) :
                status[s] = "FAILED" => status'[s] = "FAILED"]_vars

\* the dependency relation is a relation on the task's subtasks without cycle
RECURSIVE Ancestors(_, _)
Ancestors(S, k) ==
    IF k = 0 THEN S
    ELSE Ancestors(S \cup UNION {Upstream(u) : u \in S \cap SubtaskIds}, k - 1)

Acyclic ==
    \A s \in SubtaskIds :
        /\ Upstream(s) \subseteq SubtaskIds
        /\ s \notin Ancestors(Upstream(s), Len(subtasks))

Max(S) == CHOOSE x \in S : \A y \in S : y <= x

\* an upstream subtask completes in the wave that launched it: the wave is
\* merged only when all its members have returned
ExpectedWave(s) ==
    IF Upstream(s) = {} THEN 1
    ELSE 1 + Max({launch_wave[u] : u \in Upstream(s)})

\* C5: acyclic dependencies and no failing execution: each subtask starts in
\* the wave after the last wave that completed one of its dependencies; on
\* return the task and every subtask are COMPLETED and completed_results has
\* exactly one entry per subtask
C5_WaveOrder ==
    (cpc = "returned" /\ Acyclic /\ \A s \in DOMAIN xpc : xpc[s] # "raised")
    => /\ \A s \in SubtaskIds :
             launch_wave[s] > 0 => launch_wave[s] = ExpectedWave(s)
       /\ epc = "returned"
          => /\ task_status = "COMPLETED"
             /\ \A s \in SubtaskIds : status[s] = "COMPLETED"
             /\ DOMAIN completed_results = SubtaskIds
             /\ Len(completed_subtasks) = Len(subtasks)

\* scenario A: S0 alone in wave 1, S1 and S2 (both depending on S0) in wave 2
C5_Witness ==
    /\ epc = "returned"
    /\ Len(subtasks) = 3
    /\ Upstream(0) = {} /\ Upstream(1) = {0} /\ Upstream(2) = {0}
    /\ launch_wave = [s \in 0..2 |-> IF s = 0 THEN 1 ELSE 2]
    /\ Cardinality(DOMAIN completed_results) = 3
    /\ task_status = "COMPLETED"

\* C6: a plan with at least one unregistered agent name gives a Task with
\* needsClarification and no subtask; the subtask list is never partial
C6_FailFastValidation ==
    cpc = "returned"
    => /\ (\E i \in DOMAIN planner_output :
              planner_output[i] \notin EXECUTION_AGENTS)
          => (needsClarification /\ subtasks = <<>>)
       /\ Len(subtasks) \in {0, Len(planner_output)}

\* a plan with two registered names and one unregistered name was rejected
C6_Witness ==
    /\ cpc = "returned"
    /\ Cardinality({i \in DOMAIN planner_output :
                       planner_output[i] \in EXECUTION_AGENTS}) = 2
    /\ \E i \in DOMAIN planner_output : planner_output[i] = "GhostAgent"
    /\ subtasks = <<>>
    /\ needsClarification
    /\ "task_id" \in tasks

\* -------------------------------------------------- claims on SpecExec
Ended == x_pc \in {"returned", "raised", "recorded", "propagated"}

OkEntries == {t \in DOMAIN collected_data : collected_data[t].error = "None"}

C9_FailedKeepsHistory ==
    /\ (Ended /\ x_exit = "max_iterations" /\ ok_calls < 3)
       => /\ x_status = "FAILED"
          /\ x_result.status = "FAILED"
          /\ x_result.data.tool_call_history = collected_data
    /\ x_status = "FAILED"
       => /\ x_result # NoneValue
          /\ x_result.status = "FAILED"
          /\ x_result.data.tool_call_history = collected_data

\* the ceiling was reached with one successful tool call, which is in the data
C9_Witness ==
    /\ x_exit = "max_iterations"
    /\ ok_calls = 1
    /\ x_status = "FAILED"
    /\ Cardinality(OkEntries) = 1
    /\ \E t \in DOMAIN x_result.data.tool_call_history :
          x_result.data.tool_call_history[t].error = "None"

\* C10: a value returned by execute_subtask is a COMPLETED TaskResult with
\* data; so is every entry of completed_results
C10_ReturnedResultShape ==
    /\ x_pc \in {"returned", "recorded"}
       => /\ x_return # NoneValue
          /\ x_return.status = "COMPLETED"
          /\ x_return.data # NoneValue
    /\ \A k \in DOMAIN completed_results :
          /\ completed_results[k] # NoneValue
          /\ completed_results[k].status = "COMPLETED"
          /\ completed_results[k].data # NoneValue

\* a result returned after tool calls has been recorded
C10_Witness ==
    /\ x_pc = "recorded"
    /\ 0 \in DOMAIN completed_results
    /\ completed_results[0] = x_result
    /\ ok_calls >= 1

\* C11: a tool call that fails (tool not in the registry, or the tool
\* raises) never ends the round loop.  Every executed tool call, failing or
\* not, leaves the remaining calls of the round to be executed and, after
\* the last call, sends the executor to the next model round unless this was
\* round MAX_ITERATIONS, which ends at the ceiling; the error result of a
\* failing call is recorded in tool_results and collected_data and, at the
\* end of the round, in the history and as a tool message
C11_ToolFailureContinues ==
    [][(x_pc = "tools" /\ calls_left' = calls_left - 1)
       => IF calls_left > 1
          THEN /\ x_pc' = "tools"
               /\ calls_left' > 0
               /\ x_status' = "IN_PROGRESS"
               /\ iteration' = iteration
               /\ Len(tool_results') = Len(tool_results) + 1
               /\ LET r == tool_results'[Len(tool_results')]
                  IN r.error # "None" =>
                        /\ r.result = "{}"
                        /\ \E t \in DOMAIN collected_data' :
                              collected_data'[t] = r
          ELSE /\ iteration < MAX_ITERATIONS =>
                     /\ x_pc' = "model"
                     /\ iteration' = iteration + 1
                     /\ x_status' = "IN_PROGRESS"
                     /\ x_exit' = "none"
               /\ iteration = MAX_ITERATIONS => x_exit' = "max_iterations"
               /\ \A i \in DOMAIN tool_results :
                     tool_results[i].error # "None" =>
                        /\ tool_results[i].error \in history_errors'
                        /\ "{}" \in tool_messages'
               /\ \A t \in DOMAIN collected_data' :
                     collected_data'[t].error # "None" =>
                        /\ collected_data'[t].error \in history_errors'
                        /\ "{}" \in tool_messages'
               /\ \A t \in DOMAIN collected_data :
                     collected_data[t].error # "None" => t \in DOMAIN collected_data'
               /\ history_errors \subseteq history_errors']_vars

\* both calls of the first round failed, one for each reason, and the
\* executor is in its second model round
C11_Witness ==
    /\ x_pc = "model"
    /\ iteration = 2
    /\ ok_calls = 0
    /\ history_errors = {"not found in registry", "Error executing tool"}
    /\ Cardinality(DOMAIN collected_data) = 2
    /\ x_status = "IN_PROGRESS"

C13_StatusTransitions ==
    [][\A s \in DOMAIN status :
          (s \in DOMAIN status' /\ status'[s] # status[s])
          => <<status[s], status'[s]>> \in
                {<<"PENDING", "IN_PROGRESS">>,
                 <<"IN_PROGRESS", "COMPLETED">>,
                 <<"IN_PROGRESS", "FAILED">>}]_vars

\* C14: with execute_task calls running concurrently on one orchestrator,
\* the completed_results entry of a subtask id is assigned by at most one
\* execution and, once written, is neither replaced nor removed
C14_SingleWriter ==
    /\ \A s \in DOMAIN writes : writes[s] <= 1
    /\ DOMAIN writes = DOMAIN completed_results

\* an execute_subtask coroutine of the call that has not finished
InFlight(s) == xpc[s] \in {"created", "running"}

\* C15 (as claimed): while an execution of the wave is in flight (before and
\* after the step), neither completed_results nor the status of any subtask
\* changes
C15_NoChangeWhileInFlight ==
    [][((\E s \in DOMAIN xpc : InFlight(s))
        /\ (\E s \in DOMAIN xpc' : xpc'[s] \in {"created", "running"}))
       => /\ completed_results' = completed_results
          /\ status' = status]_vars

\* C15 (amended): completed_results is assigned only by the wave-merge step,
\* when every execution of the wave has returned and none is in flight;
\* while an execution is in flight completed_results does not change and
\* the only subtasks whose status changes are members of the wave; the ready
\* set is computed only when no execution is in flight
C15_MergeIsSoleWriter ==
    [][/\ completed_results' # completed_results
          => /\ epc = "gather" /\ epc' = "loop"
             /\ \A s \in DOMAIN xpc : ~InFlight(s)
             /\ \A s \in Range(pending_subtasks) : xpc[s] = "returned"
             /\ DOMAIN completed_results' =
                   DOMAIN completed_results \cup Range(pending_subtasks)
       /\ (\E s \in DOMAIN xpc : InFlight(s))
          => /\ completed_results' = completed_results
             /\ \A s \in DOMAIN status :
                   (s \in DOMAIN status' /\ status'[s] # status[s])
                   => s \in Range(pending_subtasks)
       /\ epc = "loop" => \A s \in DOMAIN xpc : ~InFlight(s)]_vars

\* one execution of a wave of two has completed its subtask while the other
\* is still running, and completed_results has no entry for either
C15_Witness ==
    \E s, t \in DOMAIN xpc :
        /\ s # t
        /\ {s, t} \subseteq Range(pending_subtasks)
        /\ epc = "gather"
        /\ xpc[s] = "returned" /\ status[s] = "COMPLETED"
        /\ xpc[t] = "running" /\ status[t] = "IN_PROGRESS"
        /\ {s, t} \cap DOMAIN completed_results = {}

\* C16: the seed user turn of a subtask that has started contains the
\* formatted history of every upstream subtask named by its dependencies
C16_ContextHasUpstream ==
    \A s \in DOMAIN context :
        (Upstream(s) \cap SubtaskIds) \subseteq context[s]

\* C17: once a round of tool calls is over, the error string of each failed
\* call is in the subtask's history, and a tool-result message of the
\* conversation carries it
C17_ErrorReachesModel ==
    /\ x_pc = "model" =>
          \A t \in DOMAIN collected_data :
              collected_data[t].error # "None"
              => collected_data[t].error \in history_errors
    /\ \A e \in history_errors : e \in tool_messages

\* C18: when the model answers without a tool call and the agent has no
\* response_format, no structured-output request is sent and the subtask
\* ends COMPLETED with a COMPLETED result
C18_NoSchemaFreeText ==
    response_format = "None"
    => /\ parse_requests = 0
       /\ x_status \in {"IN_PROGRESS", "COMPLETED"}
       /\ Ended => /\ x_status = "COMPLETED"
                    /\ x_result.status = "COMPLETED"
                    /\ x_exit = "finalized"

\* C19: after convert_query_to_task has returned, every dependency attached
\* to a subtask names subtasks of the task both as the dependent subtask and
\* as the upstream subtask
C19_DependenciesReferenceTask ==
    cpc = "returned"
    => \A s \in DOMAIN dependencies :
          \A dep \in dependencies[s] :
              /\ dep.subtask_id \in SubtaskIds
              /\ dep.task_id \in SubtaskIds

C21_FailedConversionStoresNothing ==
    /\ [](cpc = "raised" => tasks = {} /\ epc = "idle")
    /\ [][(cpc \in {"planning", "resolving"} /\ cpc' = "raised")
             => tasks' = tasks]_vars
    /\ [][cpc = "raised" => cpc' = "raised"]_vars

\* the dependency agent's call has failed after the planner's subtasks were
\* built
C21_Witness ==
    /\ cpc = "raised"
    /\ Len(subtasks) = 2
    /\ planner_output # <<>>

\* ------------------------------------------------------------------ C22
\* the number of steps execute_subtask can still take before it ends: the
\* rounds left, each worth a model call and its tool calls, then the
\* finalization
C22_StepsLeft ==
    LET round == MaxToolCalls + 1
    IN CASE x_pc = "idle" -> MAX_ITERATIONS * round + 2 + MaxToolCalls
         [] x_pc = "model" ->
              (MAX_ITERATIONS - iteration) * round + 2 + MaxToolCalls
         [] x_pc = "tools" ->
              (MAX_ITERATIONS - iteration) * round + 1 + calls_left
         [] x_pc = "finalize" -> 1
         [] OTHER -> 0

\* C22: execute_subtask issues at most MAX_ITERATIONS model rounds and at
\* most one finalization request, and it ends: as long as it has not
\* returned or raised, a step is possible and every step lowers a bounded
\* count of the steps left; after it has ended it issues no request
C22_BoundedRounds ==
    /\ [](/\ iteration <= MAX_ITERATIONS
          /\ parse_requests <= 1
          /\ x_pc = "model" => iteration >= 1
          /\ x_pc = "tools" => iteration >= 1 /\ calls_left >= 1
          /\ x_pc = "finalize" => parse_requests = 1
          /\ C22_StepsLeft >= 0)
    /\ [][(x_pc \in {"idle", "model", "tools", "finalize"})
             => C22_StepsLeft' < C22_StepsLeft]_vars
    /\ [][(x_pc \in {"returned", "raised", "recorded", "propagated"})
             => /\ iteration' = iteration
                /\ parse_requests' = parse_requests
                /\ x_pc' \in {"returned", "raised", "recorded", "propagated"}]_vars

\* the executor has returned after MAX_ITERATIONS model rounds, the last of
\* which had no tool call, and one finalization request
C22_Witness ==
    /\ x_pc = "returned"
    /\ x_exit = "finalized"
    /\ iteration = MAX_ITERATIONS
    /\ parse_requests = 1

\* ------------------------------------------------------------------ C23
\* C23: when every agent name of the plan resolves, the Task returned by
\* convert_query_to_task has one SubTask per planner spec, in the planner's
\* order, the SubTask of the spec at index i (from 0) has the id
\* {task_id}_sub_i and the spec's agent, so the ids are pairwise distinct;
\* at the return every SubTask is PENDING and the Task is PENDING
C23_OneSubtaskPerSpec ==
    (/\ cpc = "returned"
     /\ \A i \in DOMAIN planner_output : planner_output[i] \in EXECUTION_AGENTS)
    => /\ Len(subtasks) = Len(planner_output)
       /\ \A i \in DOMAIN subtasks :
             /\ subtasks[i].subtask_id = i - 1
             /\ subtasks[i].agent = planner_output[i]
       /\ \A i, j \in DOMAIN subtasks :
             i # j => subtasks[i].subtask_id # subtasks[j].subtask_id
       /\ DOMAIN status = {subtasks[i].subtask_id : i \in DOMAIN subtasks}
       /\ "task_id" \in tasks
       /\ epc = "idle" =>
             /\ \A s \in DOMAIN status : status[s] = "PENDING"
             /\ task_status = "PENDING"

\* a plan of three resolvable specs has been converted and not yet executed
C23_Witness ==
    /\ cpc = "returned"
    /\ epc = "idle"
    /\ Len(planner_output) = 3
    /\ Len(subtasks) = 3
    /\ \A i \in DOMAIN planner_output : planner_output[i] \in EXECUTION_AGENTS

\* ------------------------------------------------------------------ C24
\* C24: when a wave fails, execute_task launches no further wave and neither
\* the failure handler nor anything after it changes a subtask outside the
\* failed wave or completed_results: the subtasks merged in earlier waves
\* are COMPLETED and have their completed_results entry, the subtasks never
\* launched are PENDING
C24_FailedWaveFrame ==
    /\ [](epc = "raised" =>
            \A s \in DOMAIN status :
               /\ s \in Range(completed_subtasks) =>
                     /\ status[s] = "COMPLETED"
                     /\ s \in DOMAIN completed_results
                     /\ completed_results[s] = result[s]
               /\ s \notin Range(completed_subtasks) \cup Range(pending_subtasks) =>
                     /\ status[s] = "PENDING"
                     /\ xpc[s] = "none"
                     /\ invocations[s] = 0)
    /\ [][(epc = "raised" \/ epc' = "raised") =>
            /\ epc' = "raised"
            /\ wave_no' = wave_no
            /\ pending_subtasks' = pending_subtasks
            /\ completed_subtasks' = completed_subtasks
            /\ completed_results' = completed_results
            /\ \A s \in DOMAIN status \ Range(pending_subtasks) :
                  /\ status'[s] = status[s]
                  /\ result'[s] = result[s]
                  /\ xpc'[s] = xpc[s]]_vars

\* the second wave has failed: a subtask of the first wave is COMPLETED and
\* recorded, a third subtask was never launched
C24_Witness ==
    /\ epc = "raised"
    /\ wave_no = 2
    /\ \E s \in Range(completed_subtasks) :
          status[s] = "COMPLETED" /\ s \in DOMAIN completed_results
    /\ \E s \in DOMAIN status :
          /\ s \notin Range(completed_subtasks) \cup Range(pending_subtasks)
          /\ status[s] = "PENDING"

\* ------------------------------------------------------------------ C25
\* the work execute_task still has in front of it: for each subtask the
\* steps from its launch to the end of its execution, plus the steps of
\* execute_task itself
C25_StepsLeft ==
    LET W[i \in 0..Len(subtasks)] ==
            IF i = 0 THEN 0
            ELSE W[i-1] + (CASE xpc[subtasks[i].subtask_id] = "none" -> 4
                             [] xpc[subtasks[i].subtask_id] = "created" -> 2
                             [] xpc[subtasks[i].subtask_id] = "running" -> 1
                             [] OTHER -> 0)
    IN W[Len(subtasks)] + (CASE epc = "idle" -> 2
                             [] epc = "loop" -> 1
                             [] epc = "gather" -> 2
                             [] OTHER -> 0)

\* C25: execute_task ends after at most as many waves as the task has
\* subtasks, whatever the dependency relation: a wave is launched only with
\* a non-empty set of PENDING subtasks, each wave that has ended has moved
\* its members out of PENDING, a subtask that left PENDING does not come
\* back, an empty ready set ends the loop with a return, and every step of
\* a running execute_task lowers a bounded count of the steps left
C25_AtMostNWaves ==
    /\ [](/\ wave_no <= Len(subtasks)
          /\ epc \in {"loop", "returned", "raised"} =>
                wave_no <= Cardinality({s \in DOMAIN status :
                                           status[s] # "PENDING"})
          /\ C25_StepsLeft >= 0)
    /\ [][(wave_no' # wave_no) =>
             /\ wave_no' = wave_no + 1
             /\ pending_subtasks' # <<>>
             /\ \A s \in Range(pending_subtasks') : status[s] = "PENDING"]_vars
    /\ [][(epc # "idle") =>
             \A s \in DOMAIN status :
                status[s] # "PENDING" => status'[s] # "PENDING"]_vars
    /\ [][(epc = "gather" /\ epc' # "gather") =>
             \A s \in Range(pending_subtasks) : status'[s] # "PENDING"]_vars
    /\ [][(epc = "loop" /\ ReadySubtasks = <<>>) => epc' = "returned"]_vars
    /\ [][(epc \in {"loop", "gather"}) => C25_StepsLeft' < C25_StepsLeft]_vars

\* execute_task has returned after as many waves as the task has subtasks
C25_Witness ==
    /\ epc = "returned"
    /\ Len(subtasks) = 3
    /\ wave_no = 3
    /\ Len(completed_subtasks) = 3

\* ------------------------------------------------------------------ C26
\* the subtasks whose status is COMPLETED
C26_Completed == {s \in DOMAIN status : status[s] = "COMPLETED"}

\* C26 as stated: whenever no wave is in flight, after a raise of
\* execute_task included, a subtask is COMPLETED if and only if
\* completed_results has an entry for its id
C26_CompletedIffRecordedAlways ==
    epc \in {"idle", "loop", "returned", "raised"}
       => C26_Completed = DOMAIN completed_results

\* C26, amended: before the first wave, between two waves and after a normal
\* return a subtask is COMPLETED if and only if completed_results has an
\* entry for its id, and the result of a normal return lists exactly those
\* subtasks, once each, and counts them; after a raise every recorded
\* subtask is COMPLETED, and the COMPLETED subtasks without an entry are
\* members of the failed wave whose execution returned
C26_CompletedIffRecorded ==
    /\ epc \in {"idle", "loop", "returned"} =>
          C26_Completed = DOMAIN completed_results
    /\ epc = "returned" =>
          /\ Range(task_result.data.completed_subtasks) = DOMAIN completed_results
          /\ Len(task_result.data.completed_subtasks) =
                Cardinality(DOMAIN completed_results)
          /\ task_result.message = Cardinality(DOMAIN completed_results)
    /\ epc = "raised" =>
          /\ DOMAIN completed_results = Range(completed_subtasks)
          /\ DOMAIN completed_results \subseteq C26_Completed
          /\ \A s \in C26_Completed \ DOMAIN completed_results :
                s \in Range(pending_subtasks) /\ xpc[s] = "returned"

\* execute_task has raised out of the second wave: the subtask of the first
\* wave is recorded, a member of the failed wave is COMPLETED without entry
C26_Witness ==
    /\ epc = "raised"
    /\ wave_no = 2
    /\ DOMAIN completed_results # {}
    /\ C26_Completed \ DOMAIN completed_results # {}

\* ------------------------------------------------------------------ C27
\* C27: from the start of execute_task the Task is IN_PROGRESS until it is
\* COMPLETED, which it becomes only at the normal return, together with its
\* end_time; it is never FAILED and never PENDING again; after a raise out
\* of a failed wave it is IN_PROGRESS and has no end_time
C27_TaskStatus ==
    /\ [](/\ task_status \in {"PENDING", "IN_PROGRESS", "COMPLETED"}
          /\ epc = "idle" => task_status = "PENDING"
          /\ epc \in {"loop", "gather"} => task_status = "IN_PROGRESS"
          /\ epc = "returned" =>
                task_status = "COMPLETED" /\ task_end_time # NoneValue
          /\ epc = "raised" =>
                task_status = "IN_PROGRESS" /\ task_end_time = NoneValue)
    /\ [][(task_status' # task_status) =>
             \/ task_status = "PENDING" /\ task_status' = "IN_PROGRESS"
                   /\ epc = "idle" /\ epc' = "loop"
             \/ task_status = "IN_PROGRESS" /\ task_status' = "COMPLETED"
                   /\ epc = "loop" /\ epc' = "returned"]_vars

\* execute_task has raised out of a failed wave and the executions of the
\* wave have all ended
C27_Witness ==
    /\ epc = "raised"
    /\ task_status = "IN_PROGRESS"
    /\ task_end_time = NoneValue
    /\ \E s \in DOMAIN status : status[s] = "FAILED"
    /\ \A s \in Range(pending_subtasks) : xpc[s] \in {"returned", "raised"}

\* ------------------------------------------------------------------ C28
\* C28: the seed turn of a subtask holds, besides its own section, the
\* section of no subtask that is not one of its upstream dependencies; in
\* particular a subtask without dependencies is given the section of no
\* other subtask, so of no sibling of its wave
C28_ContextOnlyUpstream ==
    \A s \in DOMAIN context : context[s] \ {s} \subseteq Upstream(s)

\* ======================= two execute_subtask calls given the same inputs
\* One call is made with a status_callback that never raises, the other
\* without one.  Each step hands the same model response or tool outcome to
\* both calls; a call that has ended takes no further input.

\* the tool names the model asks for in this comparison: a registered tool
\* and a name that is not in the registry
PairToolNames == {1, UnregisteredTool}

\* the outcomes of the structured-output request of _finalize_response
FinalizeOutcomes == {"parsed", "parse failed", "no parsed response"}

\* lines 333-370: start of the coroutine up to the first model call
RunStart(r) ==
    [r EXCEPT !.pc = "model", !.status = "IN_PROGRESS", !.iteration = 1]

\* lines 433-464: the except clause of execute_subtask
RunExceptClause(r, data, error_details) ==
    [r EXCEPT !.pc = "raised",
              !.status = "FAILED",
              !.data = data,
              !.result = SubtaskErrorResult(data, error_details, r.iteration)]

\* lines 377-397 and 487-491: the model answers with n tool calls
RunModelResponds(r, n) ==
    IF n = 0
    THEN [r EXCEPT !.pc = "finalize"]
    ELSE [r EXCEPT !.pc = "tools", !.calls_left = n]

\* lines 493-517 for one tool call, then lines 392 and 407-431 after the last
\* call of the response.  With a callback, line 503 decodes the arguments
\* for the tool_call_start event before the try of line 508; without one
\* they are decoded only by line 597, inside the try of _execute_tool_call
RunToolCall(cb, r, tool_name, raises, bad_json) ==
    IF cb /\ bad_json
    THEN RunExceptClause(r, r.data, "invalid tool arguments")
    ELSE LET tool_result == _execute_tool_call(tool_name, raises \/ bad_json)
             data == StoreToolResult(r.data, tool_result)
         IN IF r.calls_left > 1
            THEN [r EXCEPT !.data = data, !.calls_left = r.calls_left - 1]
            ELSE IF AtCeiling(r.iteration)
            THEN [RunExceptClause(r, data, "Maximum iterations reached")
                     EXCEPT !.calls_left = 0]
            ELSE IF r.iteration < MAX_ITERATIONS
            THEN [r EXCEPT !.data = data, !.calls_left = 0, !.pc = "model",
                           !.iteration = r.iteration + 1]
            ELSE [r EXCEPT !.data = data, !.calls_left = 0, !.pc = "returned"]

\* lines 693-726: the structured-output request and what follows it
RunFinalize(r, outcome) ==
    IF outcome = "parsed"
    THEN [r EXCEPT !.pc = "returned",
                   !.status = "COMPLETED",
                   !.result = FinalResult(r.data)]
    ELSE RunExceptClause(r, r.data, outcome)

\* Each input is taken by every call that is waiting for it.

\* lines 326-370: both calls are made
PairStart ==
    /\ \E cb \in BOOLEAN : runs[cb].pc = "idle"
    /\ runs' = [cb \in BOOLEAN |->
                  IF runs[cb].pc = "idle"
                  THEN RunStart(runs[cb])
                  ELSE runs[cb]]
    /\ UNCHANGED schedVars
    /\ UNCHANGED execVars
    /\ UNCHANGED call2Vars

\* line 370 raises
PairModelFails ==
    /\ \E cb \in BOOLEAN : runs[cb].pc = "model"
    /\ runs' = [cb \in BOOLEAN |->
                  IF runs[cb].pc = "model"
                  THEN RunExceptClause(runs[cb], runs[cb].data, "model call failed")
                  ELSE runs[cb]]
    /\ UNCHANGED schedVars
    /\ UNCHANGED execVars
    /\ UNCHANGED call2Vars

\* line 370 returns a response with n tool calls
PairModelResponds(n) ==
    /\ \E cb \in BOOLEAN : runs[cb].pc = "model"
    /\ runs' = [cb \in BOOLEAN |->
                  IF runs[cb].pc = "model"
                  THEN RunModelResponds(runs[cb], n)
                  ELSE runs[cb]]
    /\ UNCHANGED schedVars
    /\ UNCHANGED execVars
    /\ UNCHANGED call2Vars

\* lines 493-517: the next tool call of the response is handled
PairToolCall(tool_name, raises, bad_json) ==
    /\ \E cb \in BOOLEAN : runs[cb].pc = "tools"
    /\ runs' = [cb \in BOOLEAN |->
                  IF runs[cb].pc = "tools"
                  THEN RunToolCall(cb, runs[cb], tool_name, raises, bad_json)
                  ELSE runs[cb]]
    /\ UNCHANGED schedVars
    /\ UNCHANGED execVars
    /\ UNCHANGED call2Vars

\* lines 693-726: the structured-output request ends
PairFinalize(outcome) ==
    /\ \E cb \in BOOLEAN : runs[cb].pc = "finalize"
    /\ runs' = [cb \in BOOLEAN |->
                  IF runs[cb].pc = "finalize"
                  THEN RunFinalize(runs[cb], outcome)
                  ELSE runs[cb]]
    /\ UNCHANGED schedVars
    /\ UNCHANGED execVars
    /\ UNCHANGED call2Vars

NextPair ==
    \/ PairStart
    \/ PairModelFails
    \/ \E n \in 0..MaxToolCalls : PairModelResponds(n)
    \/ \E tool_name \in PairToolNames, raises \in BOOLEAN, bad_json \in BOOLEAN :
          /\ ~(raises /\ bad_json)
          /\ PairToolCall(tool_name, raises, bad_json)
    \/ \E outcome \in FinalizeOutcomes : PairFinalize(outcome)

SpecPair == Init /\ [][NextPair]_vars

\* ------------------------------------------------------------------ C29
\* C29: given the same model responses and tool outcomes, arguments that are
\* not valid JSON included, the call with a status_callback that never
\* raises and the call without one end in the same way (both return or both
\* raise) with the same subtask status and the same result
C29_CallbackOnlyObserves ==
    (/\ runs[TRUE].pc \in {"returned", "raised"}
     /\ runs[FALSE].pc \in {"returned", "raised"})
    => /\ runs[TRUE].pc = runs[FALSE].pc
       /\ runs[TRUE].status = runs[FALSE].status
       /\ runs[TRUE].result = runs[FALSE].result

\* ------------------------------------------------------------------ C30
\* C30: tool_call_history, the dict collected_data that every result of the
\* subtask carries, has one entry under each tool name that was called and
\* no other: a call stores its own outcome under the tool's name in place of
\* the entry an earlier call of that tool left and changes no other entry,
\* so the number of entries is the number of distinct names called
C30_OneEntryPerToolName ==
    /\ [](/\ DOMAIN collected_data = called_tools
          /\ Cardinality(DOMAIN collected_data) = Cardinality(called_tools)
          /\ x_pc \in {"returned", "raised"} /\ x_result # NoneValue =>
                x_result.data.tool_call_history = collected_data)
    /\ [][(x_pc = "tools" /\ calls_left' = calls_left - 1) =>
            \E t \in ToolNames :
               /\ called_tools' = called_tools \cup {t}
               /\ DOMAIN collected_data' = DOMAIN collected_data \cup {t}
               /\ \A n \in DOMAIN collected_data \ {t} :
                     collected_data'[n] = collected_data[n]
               /\ ok_calls' > ok_calls =>
                     collected_data'[t] = [result |-> "result", error |-> "None"]
               /\ (ok_calls' = ok_calls /\ ok_calls < MaxOkCalls) =>
                     /\ collected_data'[t].result = "{}"
                     /\ collected_data'[t].error # "None"]_vars
    /\ [][(x_pc # "tools") => collected_data' = collected_data]_vars

\* the executor has returned after two successful calls of one tool and a
\* failed call of another: two entries for three calls, the first tool's
\* entry is that of a successful call
C30_Witness ==
    /\ x_pc = "returned"
    /\ x_exit = "finalized"
    /\ ok_calls = 2
    /\ history_errors # {}
    /\ Cardinality(DOMAIN x_result.data.tool_call_history) = 2
    /\ called_tools = {1, 2}
    /\ collected_data[1].error = "None"
    /\ collected_data[2].error # "None"

====
